---- MODULE Spec2Model ----
(***************************************************************************)
(* Authorization and tenant scoping of the tenantview dashboard:           *)
(*   - Role Policy       lib/permissions   (getPermissions, navigation)    *)
(*   - Identity Session  contexts/AuthContext   (restore, login, logout)   *)
(*   - Tenant Scope      contexts/TenantContext (loadTenants, switchTenant,*)
(*                                               refreshTenants)           *)
(*   - Access Guard      components/guards/ProtectedRoute                  *)
(* JavaScript values are modelled as records: a string-keyed object is a   *)
(* TLA+ record, null and undefined are the two records Null and Undefined, *)
(* and a localStorage item is the record Item(text).                       *)
(***************************************************************************)
EXTENDS Integers, Sequences, FiniteSets, TLC

(* ------------------------------------------------------------------ *)
(* Bounds of the model                                                 *)
(* ------------------------------------------------------------------ *)

\* at most this many asynchronous calls (login, logout, the getAll of a
\* recompute or of a refresh) await their collaborator at the same time
MaxInFlight == 2

(* ------------------------------------------------------------------ *)
(* JavaScript values                                                    *)
(* ------------------------------------------------------------------ *)

Null == [kind |-> "null"]

Undefined == [kind |-> "undefined"]

\* JavaScript truthiness of an object-or-nullish value
Truthy(x) == x # Null /\ x # Undefined

\* a || b
OrElse(a, b) == IF Truthy(a) THEN a ELSE b

\* the positions of an array
Indexes(arr) == 1..Len(arr)

\* Array.prototype.find, given the positions whose element satisfies the
\* callback: the first such element, else undefined
Find(arr, hits) ==
    IF hits = {} THEN Undefined
    ELSE arr[CHOOSE i \in hits : \A j \in hits : i <= j]

\* Array.prototype.filter, given the positions whose element satisfies the
\* callback: those elements, in the array's order
RECURSIVE Filter(_, _)
Filter(arr, hits) ==
    IF arr = <<>> THEN <<>>
    ELSE LET n == Len(arr)
             before == Filter(SubSeq(arr, 1, n - 1), hits)
         IN  IF n \in hits THEN Append(before, arr[n]) ELSE before

\* Array.prototype.includes
Includes(arr, x) == \E i \in 1..Len(arr) : arr[i] = x

\* arr[0]: undefined on an empty array
First(arr) == IF Len(arr) > 0 THEN arr[1] ELSE Undefined

(* ------------------------------------------------------------------ *)
(* types/index.ts                                                       *)
(* ------------------------------------------------------------------ *)

UserRole == {"super_admin", "org_admin", "member"}

(* ------------------------------------------------------------------ *)
(* lib/permissions: Role Policy                                         *)
(* ------------------------------------------------------------------ *)

\* mutant: org_admin is let switch tenants without seeing all of them
getPermissions_orgAdminSwitches(role) ==
    CASE role = "super_admin" ->
           [canViewAllTenants |-> TRUE,  canSwitchTenants |-> TRUE,
            canManageUsers    |-> TRUE,  canEditSettings  |-> TRUE,
            canViewAnalytics  |-> TRUE]
      [] role = "org_admin" ->
           [canViewAllTenants |-> FALSE, canSwitchTenants |-> TRUE,
            canManageUsers    |-> TRUE,  canEditSettings  |-> TRUE,
            canViewAnalytics  |-> TRUE]
      [] role = "member" ->
           [canViewAllTenants |-> FALSE, canSwitchTenants |-> FALSE,
            canManageUsers    |-> FALSE, canEditSettings  |-> FALSE,
            canViewAnalytics  |-> TRUE]

getPermissions(role) ==
    CASE role = "super_admin" ->
           [canViewAllTenants |-> TRUE,  canSwitchTenants |-> TRUE,
            canManageUsers    |-> TRUE,  canEditSettings  |-> TRUE,
            canViewAnalytics  |-> TRUE]
      [] role = "org_admin" ->
           [canViewAllTenants |-> FALSE, canSwitchTenants |-> FALSE,
            canManageUsers    |-> TRUE,  canEditSettings  |-> TRUE,
            canViewAnalytics  |-> TRUE]
      [] role = "member" ->
           [canViewAllTenants |-> FALSE, canSwitchTenants |-> FALSE,
            canManageUsers    |-> FALSE, canEditSettings  |-> FALSE,
            canViewAnalytics  |-> TRUE]

hasPermission(role, permission) == getPermissions(role)[permission]

navigationItems ==
    << [label |-> "Dashboard", path |-> "/dashboard",
        icon |-> "LayoutDashboard",
        requiredRoles |-> <<"super_admin", "org_admin", "member">>],
       [label |-> "Users", path |-> "/dashboard/users",
        icon |-> "Users",
        requiredRoles |-> <<"super_admin", "org_admin">>],
       [label |-> "Settings", path |-> "/dashboard/settings",
        icon |-> "Settings",
        requiredRoles |-> <<"super_admin", "org_admin">>] >>

\* mutant: the filter keeps the entries the role may NOT see
getNavigationForRole_negated(role) ==
    LET hidden == {i \in Indexes(navigationItems) :
                      ~Includes(navigationItems[i].requiredRoles, role)}
    IN  Filter(navigationItems, hidden)

getNavigationForRole(role) ==
    LET visible == {i \in Indexes(navigationItems) :
                       Includes(navigationItems[i].requiredRoles, role)}
    IN  Filter(navigationItems, visible)

\* mutant: a route the catalog does not list is refused
canAccessRoute_deniesUnlisted(role, path) ==
    LET matches == {i \in Indexes(navigationItems) :
                       navigationItems[i].path = path}
        navItem == Find(navigationItems, matches)
    IN  IF ~Truthy(navItem) THEN FALSE
        ELSE Includes(navItem.requiredRoles, role)

canAccessRoute(role, path) ==
    LET matches == {i \in Indexes(navigationItems) :
                       navigationItems[i].path = path}
        navItem == Find(navigationItems, matches)
    IN  IF ~Truthy(navItem) THEN TRUE
        ELSE Includes(navItem.requiredRoles, role)

(* ------------------------------------------------------------------ *)
(* lib/mock-api: the data of the collaborators                          *)
(* ------------------------------------------------------------------ *)

mockTenants ==
    << [id |-> "tenant-1", name |-> "Acme Corporation", slug |-> "acme"],
       [id |-> "tenant-2", name |-> "TechStart Inc", slug |-> "techstart"],
       [id |-> "tenant-3", name |-> "Global Dynamics",
        slug |-> "global-dynamics"] >>

\* The catalogs the Data Service may hold: the shipped one, its first two
\* tenants, and the empty one.
Catalogs == { mockTenants, SubSeq(mockTenants, 1, 2), <<>> }

\* The timestamps createdAt and lastLoginAt of a user are left out: no
\* operation reads them.
mockUsers ==
    << [id |-> "user-1", email |-> "superadmin@platform.com",
        name |-> "Sarah Chen", role |-> "super_admin",
        tenantId |-> "tenant-1", status |-> "active"],
       [id |-> "user-2", email |-> "admin@acme.com",
        name |-> "Michael Torres", role |-> "org_admin",
        tenantId |-> "tenant-1", status |-> "active"],
       [id |-> "user-3", email |-> "member@acme.com",
        name |-> "Emily Watson", role |-> "member",
        tenantId |-> "tenant-1", status |-> "active"],
       [id |-> "user-4", email |-> "admin@techstart.com",
        name |-> "David Kim", role |-> "org_admin",
        tenantId |-> "tenant-2", status |-> "active"],
       [id |-> "user-5", email |-> "member@techstart.com",
        name |-> "Lisa Park", role |-> "member",
        tenantId |-> "tenant-2", status |-> "pending"],
       [id |-> "user-6", email |-> "admin@global.com",
        name |-> "James Wilson", role |-> "org_admin",
        tenantId |-> "tenant-3", status |-> "active"],
       [id |-> "user-7", email |-> "member1@global.com",
        name |-> "Anna Schmidt", role |-> "member",
        tenantId |-> "tenant-3", status |-> "inactive"],
       [id |-> "user-8", email |-> "member2@global.com",
        name |-> "Carlos Rivera", role |-> "member",
        tenantId |-> "tenant-3", status |-> "active"] >>

\* the name authApi.login gives a user it creates
createdName(role) ==
    IF role = "super_admin" THEN "Super Admin"
    ELSE IF role = "org_admin" THEN "Org Admin" ELSE "Member"

\* authApi.login after its delay: the user the Identity Provider resolves.
\* Date.now() is one abstract instant, written "now".
authApiLogin(role, tenantId) ==
    LET sameRoleAndTenant == {i \in Indexes(mockUsers) :
                                 /\ mockUsers[i].role = role
                                 /\ mockUsers[i].tenantId = tenantId}
        isSuperAdmin == {i \in Indexes(mockUsers) :
                            mockUsers[i].role = "super_admin"}
        found == IF role = "super_admin"
                 THEN Find(mockUsers, isSuperAdmin)
                 ELSE Find(mockUsers, sameRoleAndTenant)
    IN  IF Truthy(found) THEN found
        ELSE [id |-> "user-now", email |-> role \o "@" \o tenantId \o ".com",
              name |-> createdName(role), role |-> role,
              tenantId |-> tenantId, status |-> "active"]

\* whether authApi.login returned an element of mockUsers (the same object
\* on every call) or an object it created (a new object on every call)
loginReturnsMockUser(role, tenantId) ==
    \E i \in 1..Len(mockUsers) : mockUsers[i] = authApiLogin(role, tenantId)

(* ------------------------------------------------------------------ *)
(* The Session Store: localStorage and the JSON text of an identity     *)
(* ------------------------------------------------------------------ *)

AUTH_STORAGE_KEY == "dashboard_auth"

TENANT_STORAGE_KEY == "dashboard_tenant"

\* a stored item: localStorage.getItem gives its text, or null when absent
Item(text) == [text |-> text]

\* the own keys of a User in the order JSON.stringify writes them
UserKeys == <<"id", "email", "name", "role", "tenantId", "status">>

\* JSON.stringify(user): the text as its sequence of tokens
RECURSIVE stringifyFields(_, _)
stringifyFields(obj, keys) ==
    IF keys = <<>> THEN <<>>
    ELSE <<Head(keys), obj[Head(keys)]>> \o stringifyFields(obj, Tail(keys))

\* mutant: the last key of the user is not written
JSONstringify_dropsLastKey(obj) ==
    <<"{">> \o stringifyFields(obj, SubSeq(UserKeys, 1, Len(UserKeys) - 1))
        \o <<"}">>

JSONstringify(obj) == <<"{">> \o stringifyFields(obj, UserKeys) \o <<"}">>

\* the text of JSON null, and a text JSON.parse rejects
JsonNullText == <<"null">>

MalformedText == <<"{", "id">>

SyntaxError == [kind |-> "SyntaxError"]

\* JSON.parse(text): null, the object the tokens spell, or a SyntaxError
JSONparse(text) ==
    IF text = JsonNullText THEN Null
    ELSE IF /\ Len(text) >= 2
            /\ text[1] = "{"
            /\ text[Len(text)] = "}"
            /\ Len(text) % 2 = 0
         THEN LET n == (Len(text) - 2) \div 2
                  keys == {text[2 * i] : i \in 1..n}
              IN  [k \in keys |->
                     text[1 + 2 * (CHOOSE i \in 1..n :
                        text[2 * i] = k /\ \A j \in (i + 1)..n : text[2 * j] # k)]]
         ELSE SyntaxError

getItem(storage, key) == storage[key]

setItem(storage, key, text) == [storage EXCEPT ![key] = Item(text)]

removeItem(storage, key) == [storage EXCEPT ![key] = Null]

(* ------------------------------------------------------------------ *)
(* State                                                                *)
(* ------------------------------------------------------------------ *)

VARIABLES
    auth,            \* AuthProvider state: user, isAuthenticated, isLoading
    userOrigin,      \* which object auth.user is: "none", "parsed" (made by
                     \*   JSON.parse), "mock" (an element of mockUsers) or
                     \*   "created" (made by authApi.login)
    tenant,          \* TenantProvider state: currentTenant, availableTenants,
                     \*   isLoading
    localStorage,    \* the Session Store: one item per storage key
    catalog,         \* the tenants the Data Service holds
    inflight,        \* the asynchronous calls awaiting their collaborator,
                     \*   per kind; the collaborators answer in any order
    restorePending,  \* AuthProvider's mount effect has not run yet
    effectPending,   \* TenantProvider's effect is due: the component is
                     \*   mounting, or [isAuthenticated, user] changed
    lastCall,        \* the operation that ran last, and how it ended
    policy           \* the last Role Policy calls and what they returned

vars == <<auth, userOrigin, tenant, localStorage, catalog, inflight, restorePending,
          effectPending, lastCall, policy>>

\* the inputs of the operations
LoginInputs ==
    { <<"super_admin", "tenant-2">>, <<"org_admin", "tenant-1">>,
      <<"member", "tenant-9">> }

SwitchTenantIds == {"tenant-2", "tenant-3", "tenant-9"}

Paths ==
    { "/dashboard", "/dashboard/users", "/dashboard/settings",
      "/dashboard/reports", "/dashboard/users/" }

\* a JavaScript array passed where undefined may be passed instead
Array(seq) == [array |-> seq]

RequiredRolesProps ==
    { Undefined, Array(<<"super_admin", "org_admin">>),
      Array(<<"super_admin">>), Array(<<"member">>), Array(<<>>) }

\* what a browser may hold in localStorage when the application starts
StoredAuthItems ==
    { Null, Item(MalformedText), Item(JsonNullText),
      Item(JSONstringify(authApiLogin("org_admin", "tenant-2"))) }

StoredTenantItems == { Null, Item("tenant-2"), Item("tenant-9") }

NoCall == [op |-> "none", arg |-> "", result |-> "ok"]

Called(op, arg, result) == [op |-> op, arg |-> arg, result |-> result]

NoPolicyCall == [role |-> "", path |-> "", result |-> Undefined]

\* the state of the first render: both providers are loading
Init ==
    /\ auth = [user |-> Null, isAuthenticated |-> FALSE, isLoading |-> TRUE]
    /\ userOrigin = "none"
    /\ tenant = [currentTenant |-> Null, availableTenants |-> <<>>,
                 isLoading |-> TRUE]
    /\ \E a \in StoredAuthItems, t \in StoredTenantItems :
          localStorage = [k \in {AUTH_STORAGE_KEY, TENANT_STORAGE_KEY} |->
                            IF k = AUTH_STORAGE_KEY THEN a ELSE t]
    /\ catalog \in Catalogs
    /\ inflight = [login |-> <<>>, logout |-> 0, loadTenants |-> <<>>,
                   refreshTenants |-> 0]
    /\ restorePending = TRUE
    /\ effectPending = TRUE
    /\ lastCall = NoCall
    /\ policy = [permissions |-> NoPolicyCall, navigation |-> NoPolicyCall,
                 route |-> NoPolicyCall]

\* React runs the effects of a commit before it handles anything else:
\* handlers and promise callbacks run only when no effect is due.
Idle == ~restorePending /\ ~effectPending

\* the number of asynchronous calls awaiting their collaborator
InFlight ==
    Len(inflight.login) + inflight.logout + Len(inflight.loadTenants)
        + inflight.refreshTenants

\* the sequence without its i-th element
RemoveAt(seq, i) == SubSeq(seq, 1, i - 1) \o SubSeq(seq, i + 1, Len(seq))

(* ------------------------------------------------------------------ *)
(* contexts/AuthContext: Identity Session                               *)
(* ------------------------------------------------------------------ *)

\* mutant: a stored text that does not parse is left in the store
Restore_keepsMalformed ==
    /\ restorePending /\ ~effectPending
    /\ restorePending' = FALSE
    /\ LET stored == getItem(localStorage, AUTH_STORAGE_KEY)
       IN  IF Truthy(stored)
           THEN LET user == JSONparse(stored.text)
                IN  IF user # SyntaxError
                    THEN /\ auth' = [user |-> user, isAuthenticated |-> TRUE,
                                     isLoading |-> FALSE]
                         /\ userOrigin' =
                              IF user = Null THEN "none" ELSE "parsed"
                         /\ UNCHANGED localStorage
                         /\ effectPending' = TRUE
                         /\ lastCall' = Called("restore", "", "ok")
                    ELSE /\ UNCHANGED localStorage
                         /\ auth' = [auth EXCEPT !.isLoading = FALSE]
                         /\ UNCHANGED userOrigin
                         /\ effectPending' = FALSE
                         /\ lastCall' = Called("restore", "", "corrupt")
           ELSE /\ auth' = [auth EXCEPT !.isLoading = FALSE]
                /\ UNCHANGED <<userOrigin, localStorage>>
                /\ effectPending' = FALSE
                /\ lastCall' = Called("restore", "", "absent")
    /\ UNCHANGED <<tenant, catalog, inflight, policy>>

\* the mount effect of AuthProvider
Restore ==
    /\ restorePending /\ ~effectPending
    /\ restorePending' = FALSE
    /\ LET stored == getItem(localStorage, AUTH_STORAGE_KEY)
       IN  IF Truthy(stored)
           THEN LET user == JSONparse(stored.text)
                IN  IF user # SyntaxError
                    THEN /\ auth' = [user |-> user, isAuthenticated |-> TRUE,
                                     isLoading |-> FALSE]
                         /\ userOrigin' =
                              IF user = Null THEN "none" ELSE "parsed"
                         /\ UNCHANGED localStorage
                         /\ effectPending' = TRUE
                         /\ lastCall' = Called("restore", "", "ok")
                    ELSE /\ localStorage' =
                              removeItem(localStorage, AUTH_STORAGE_KEY)
                         /\ auth' = [auth EXCEPT !.isLoading = FALSE]
                         /\ UNCHANGED userOrigin
                         /\ effectPending' = FALSE
                         /\ lastCall' = Called("restore", "", "corrupt")
           ELSE /\ auth' = [auth EXCEPT !.isLoading = FALSE]
                /\ UNCHANGED <<userOrigin, localStorage>>
                /\ effectPending' = FALSE
                /\ lastCall' = Called("restore", "", "absent")
    /\ UNCHANGED <<tenant, catalog, inflight, policy>>

\* login up to its await of authApi.login
login(role, tenantId) ==
    /\ Idle
    /\ InFlight < MaxInFlight
    /\ auth' = [auth EXCEPT !.isLoading = TRUE]
    /\ inflight' = [inflight EXCEPT !.login =
                       Append(@, [role |-> role, tenantId |-> tenantId])]
    /\ lastCall' = Called("login", "", "pending")
    /\ UNCHANGED <<userOrigin, tenant, localStorage, catalog, restorePending,
                   effectPending, policy>>

\* authApi.login resolved: the rest of login's try block
loginResolved(i) ==
    /\ Idle
    /\ i \in 1..Len(inflight.login)
    /\ LET user == authApiLogin(inflight.login[i].role, inflight.login[i].tenantId)
           fromMock == loginReturnsMockUser(inflight.login[i].role,
                                            inflight.login[i].tenantId)
           \* the dependencies [isAuthenticated, user] are unchanged only
           \* when the state already holds this very object
           sameObject == fromMock /\ userOrigin = "mock" /\ auth.user = user
       IN  /\ localStorage' = setItem(localStorage, AUTH_STORAGE_KEY,
                                      JSONstringify(user))
           /\ auth' = [user |-> user, isAuthenticated |-> TRUE,
                       isLoading |-> FALSE]
           /\ userOrigin' = IF fromMock THEN "mock" ELSE "created"
           /\ effectPending' = ~(auth.isAuthenticated /\ sameObject)
    /\ inflight' = [inflight EXCEPT !.login = RemoveAt(@, i)]
    /\ lastCall' = Called("login", "", "ok")
    /\ UNCHANGED <<tenant, catalog, restorePending, policy>>

\* authApi.login rejected: login's catch block, which rethrows
loginRejected(i) ==
    /\ Idle
    /\ i \in 1..Len(inflight.login)
    /\ auth' = [auth EXCEPT !.isLoading = FALSE]
    /\ inflight' = [inflight EXCEPT !.login = RemoveAt(@, i)]
    /\ lastCall' = Called("login", "", "SignInFailed")
    /\ UNCHANGED <<userOrigin, tenant, localStorage, catalog, restorePending,
                   effectPending, policy>>

\* logout up to its await of authApi.logout
logout ==
    /\ Idle
    /\ InFlight < MaxInFlight
    /\ inflight' = [inflight EXCEPT !.logout = @ + 1]
    /\ lastCall' = Called("logout", "", "pending")
    /\ UNCHANGED <<auth, userOrigin, tenant, localStorage, catalog,
                   restorePending, effectPending, policy>>

\* mutant: logout leaves the stored identity where it is
logoutResolved_keepsEntry ==
    /\ Idle
    /\ inflight.logout > 0
    /\ auth' = [user |-> Null, isAuthenticated |-> FALSE, isLoading |-> FALSE]
    /\ userOrigin' = "none"
    /\ effectPending' = (auth.isAuthenticated \/ auth.user # Null)
    /\ inflight' = [inflight EXCEPT !.logout = @ - 1]
    /\ lastCall' = Called("logout", "", "ok")
    /\ UNCHANGED <<tenant, localStorage, catalog, restorePending, policy>>

\* authApi.logout resolved: the rest of logout
logoutResolved ==
    /\ Idle
    /\ inflight.logout > 0
    /\ localStorage' = removeItem(localStorage, AUTH_STORAGE_KEY)
    /\ auth' = [user |-> Null, isAuthenticated |-> FALSE, isLoading |-> FALSE]
    /\ userOrigin' = "none"
    /\ effectPending' = (auth.isAuthenticated \/ auth.user # Null)
    /\ inflight' = [inflight EXCEPT !.logout = @ - 1]
    /\ lastCall' = Called("logout", "", "ok")
    /\ UNCHANGED <<tenant, catalog, restorePending, policy>>

\* authApi.logout rejected: the await throws and logout does nothing more
logoutRejected ==
    /\ Idle
    /\ inflight.logout > 0
    /\ inflight' = [inflight EXCEPT !.logout = @ - 1]
    /\ lastCall' = Called("logout", "", "SignOutFailed")
    /\ UNCHANGED <<auth, userOrigin, tenant, localStorage, catalog,
                   restorePending, effectPending, policy>>

(* ------------------------------------------------------------------ *)
(* The Data Service                                                     *)
(* ------------------------------------------------------------------ *)

\* the Data Service's tenants change between two calls of tenantsApi.getAll
\* (the Data Service is a collaborator; the shipped one always answers
\* mockTenants)
catalogChanges ==
    /\ Idle
    /\ catalog' \in Catalogs \ {catalog}
    /\ UNCHANGED <<auth, userOrigin, tenant, localStorage, inflight,
                   restorePending, effectPending, lastCall, policy>>

(* ------------------------------------------------------------------ *)
(* contexts/TenantContext: Tenant Scope                                 *)
(* ------------------------------------------------------------------ *)

\* mutant: the stored tenant choice is ignored
resolveCurrentTenant_ignoresStored(user, tenants, storedTenantId) ==
    LET isHome == {i \in Indexes(tenants) : tenants[i].id = user.tenantId}
    IN  IF user.role = "super_admin"
        THEN First(tenants)
        ELSE OrElse(Find(tenants, isHome), Null)

\* loadTenants, "Restore or set current tenant": the tenant an identity is
\* scoped to, given the fetched tenants and the stored tenant choice
resolveCurrentTenant(user, tenants, storedTenantId) ==
    LET isStored == {i \in Indexes(tenants) :
                        tenants[i].id = storedTenantId.text}
        isHome == {i \in Indexes(tenants) : tenants[i].id = user.tenantId}
    IN  IF user.role = "super_admin"
        THEN IF Truthy(storedTenantId)
             THEN OrElse(Find(tenants, isStored), First(tenants))
             ELSE First(tenants)
        ELSE OrElse(Find(tenants, isHome), Null)

\* loadTenants: the tenants an identity may choose among
resolveAvailableTenants(user, tenants) ==
    IF user.role = "super_admin" THEN tenants ELSE <<>>

\* the effect of TenantProvider: loadTenants up to its await of getAll
loadTenants ==
    /\ effectPending
    /\ effectPending' = FALSE
    /\ IF ~auth.isAuthenticated \/ ~Truthy(auth.user)
       THEN /\ tenant' = [currentTenant |-> Null, availableTenants |-> <<>>,
                          isLoading |-> FALSE]
            /\ UNCHANGED inflight
            /\ lastCall' = Called("loadTenants", "", "reset")
       ELSE /\ tenant' = [tenant EXCEPT !.isLoading = TRUE]
            /\ inflight' = [inflight EXCEPT !.loadTenants =
                               Append(@, [user |-> auth.user])]
            /\ lastCall' = Called("loadTenants", "", "pending")
    /\ UNCHANGED <<auth, userOrigin, localStorage, catalog, restorePending,
                   policy>>

\* mutant: the resolved tenant is not written to the store
loadTenantsResolved_notPersisted(i) ==
    /\ Idle
    /\ i \in 1..Len(inflight.loadTenants)
    /\ LET user == inflight.loadTenants[i].user
           tenants == catalog
           storedTenantId == getItem(localStorage, TENANT_STORAGE_KEY)
           currentTenant == resolveCurrentTenant(user, tenants, storedTenantId)
       IN  /\ localStorage' = localStorage
           /\ tenant' = [currentTenant |-> currentTenant,
                         availableTenants |->
                             resolveAvailableTenants(user, tenants),
                         isLoading |-> FALSE]
           /\ lastCall' = Called("loadTenants", "", "ok")
    /\ inflight' = [inflight EXCEPT !.loadTenants = RemoveAt(@, i)]
    /\ UNCHANGED <<auth, userOrigin, catalog, restorePending, effectPending,
                   policy>>

\* tenantsApi.getAll resolved: the rest of loadTenants' try block, run for
\* the user the effect was started for
loadTenantsResolved(i) ==
    /\ Idle
    /\ i \in 1..Len(inflight.loadTenants)
    /\ LET user == inflight.loadTenants[i].user
           tenants == catalog
           storedTenantId == getItem(localStorage, TENANT_STORAGE_KEY)
           currentTenant == resolveCurrentTenant(user, tenants, storedTenantId)
       IN  /\ localStorage' =
                IF Truthy(currentTenant)
                THEN setItem(localStorage, TENANT_STORAGE_KEY, currentTenant.id)
                ELSE localStorage
           /\ tenant' = [currentTenant |-> currentTenant,
                         availableTenants |->
                             resolveAvailableTenants(user, tenants),
                         isLoading |-> FALSE]
           /\ lastCall' = Called("loadTenants", "", "ok")
    /\ inflight' = [inflight EXCEPT !.loadTenants = RemoveAt(@, i)]
    /\ UNCHANGED <<auth, userOrigin, catalog, restorePending, effectPending,
                   policy>>

\* mutant: the catch block leaves isLoading as it is
loadTenantsRejected_keepsLoading(i) ==
    /\ Idle
    /\ i \in 1..Len(inflight.loadTenants)
    /\ inflight' = [inflight EXCEPT !.loadTenants = RemoveAt(@, i)]
    /\ lastCall' = Called("loadTenants", "", "failed")
    /\ UNCHANGED <<auth, userOrigin, tenant, localStorage, catalog,
                   restorePending, effectPending, policy>>

\* tenantsApi.getAll rejected: loadTenants' catch block
loadTenantsRejected(i) ==
    /\ Idle
    /\ i \in 1..Len(inflight.loadTenants)
    /\ tenant' = [tenant EXCEPT !.isLoading = FALSE]
    /\ inflight' = [inflight EXCEPT !.loadTenants = RemoveAt(@, i)]
    /\ lastCall' = Called("loadTenants", "", "failed")
    /\ UNCHANGED <<auth, userOrigin, localStorage, catalog, restorePending,
                   effectPending, policy>>

\* mutant: the role of the user is not checked
switchTenantResult_noRoleCheck(user, availableTenants, tenantId) ==
    LET hasId == {i \in Indexes(availableTenants) :
                     availableTenants[i].id = tenantId}
    IN  IF ~Truthy(user) THEN "Unauthorized"
        ELSE IF ~Truthy(Find(availableTenants, hasId)) THEN "TenantNotFound"
        ELSE "ok"

\* mutant: the tenant is looked up in the shipped tenants, not in
\* availableTenants
switchTenantResult_lookupElsewhere(user, availableTenants, tenantId) ==
    LET hasId == {i \in Indexes(mockTenants) : mockTenants[i].id = tenantId}
    IN  IF ~Truthy(user) \/ user.role # "super_admin" THEN "Unauthorized"
        ELSE IF ~Truthy(Find(mockTenants, hasId)) THEN "TenantNotFound"
        ELSE "ok"

\* how switchTenant ends for the rendered user and availableTenants
switchTenantResult(user, availableTenants, tenantId) ==
    LET hasId == {i \in Indexes(availableTenants) :
                     availableTenants[i].id = tenantId}
    IN  IF ~Truthy(user) \/ user.role # "super_admin" THEN "Unauthorized"
        ELSE IF ~Truthy(Find(availableTenants, hasId)) THEN "TenantNotFound"
        ELSE "ok"

\* mutant: the new tenant choice is not persisted
switchTenant_notPersisted(tenantId) ==
    /\ Idle
    /\ LET hasId == {i \in Indexes(tenant.availableTenants) :
                        tenant.availableTenants[i].id = tenantId}
           result == switchTenantResult(auth.user, tenant.availableTenants,
                                        tenantId)
       IN  /\ lastCall' = Called("switchTenant", tenantId, result)
           /\ IF result = "ok"
              THEN tenant' = [tenant EXCEPT !.currentTenant =
                                Find(tenant.availableTenants, hasId)]
              ELSE UNCHANGED tenant
    /\ UNCHANGED <<auth, userOrigin, localStorage, catalog, inflight,
                   restorePending, effectPending, policy>>

switchTenant(tenantId) ==
    /\ Idle
    /\ LET hasId == {i \in Indexes(tenant.availableTenants) :
                        tenant.availableTenants[i].id = tenantId}
           result == switchTenantResult(auth.user, tenant.availableTenants,
                                        tenantId)
       IN  /\ lastCall' = Called("switchTenant", tenantId, result)
           /\ IF result = "ok"
              THEN /\ localStorage' =
                        setItem(localStorage, TENANT_STORAGE_KEY, tenantId)
                   /\ tenant' = [tenant EXCEPT !.currentTenant =
                                   Find(tenant.availableTenants, hasId)]
              ELSE UNCHANGED <<localStorage, tenant>>
    /\ UNCHANGED <<auth, userOrigin, catalog, inflight, restorePending,
                   effectPending, policy>>

\* refreshTenants up to its await of getAll
refreshTenants ==
    /\ Idle
    /\ InFlight < MaxInFlight
    /\ inflight' = [inflight EXCEPT !.refreshTenants = @ + 1]
    /\ lastCall' = Called("refreshTenants", "", "pending")
    /\ UNCHANGED <<auth, userOrigin, tenant, localStorage, catalog,
                   restorePending, effectPending, policy>>

\* the state refreshTenants sets: setState(prev => ({...prev,
\* availableTenants: tenants}))
refreshResult(prev, tenants) == [prev EXCEPT !.availableTenants = tenants]

\* tenantsApi.getAll resolved: the rest of refreshTenants
refreshTenantsResolved ==
    /\ Idle
    /\ inflight.refreshTenants > 0
    /\ tenant' = refreshResult(tenant, catalog)
    /\ inflight' = [inflight EXCEPT !.refreshTenants = @ - 1]
    /\ lastCall' = Called("refreshTenants", "", "ok")
    /\ UNCHANGED <<auth, userOrigin, localStorage, catalog, restorePending,
                   effectPending, policy>>

\* tenantsApi.getAll rejected: the await throws, refreshTenants sets nothing
refreshTenantsRejected ==
    /\ Idle
    /\ inflight.refreshTenants > 0
    /\ inflight' = [inflight EXCEPT !.refreshTenants = @ - 1]
    /\ lastCall' = Called("refreshTenants", "", "failed")
    /\ UNCHANGED <<auth, userOrigin, tenant, localStorage, catalog,
                   restorePending, effectPending, policy>>

(* ------------------------------------------------------------------ *)
(* components/guards/ProtectedRoute: Access Guard                       *)
(* ------------------------------------------------------------------ *)

\* mutant: the loading flag of the Tenant Scope is not looked at
guardDecision_ignoresTenantLoading(authState, tenantState, requiredRoles, pathname) ==
    IF authState.isLoading THEN "AWAIT"
    ELSE IF ~authState.isAuthenticated \/ ~Truthy(authState.user)
         THEN "REDIRECT_LOGIN"
    ELSE IF Truthy(requiredRoles)
            /\ ~Includes(requiredRoles.array, authState.user.role)
         THEN "UNAUTHORIZED"
    ELSE IF ~canAccessRoute(authState.user.role, pathname) THEN "UNAUTHORIZED"
    ELSE "ALLOW"

\* mutant: a route without requiredRoles is shown before the identity is
\* looked at
guardDecision_openWithoutRoles(authState, tenantState, requiredRoles, pathname) ==
    IF authState.isLoading \/ tenantState.isLoading THEN "AWAIT"
    ELSE IF ~Truthy(requiredRoles) /\ ~Truthy(authState.user) THEN "ALLOW"
    ELSE IF ~authState.isAuthenticated \/ ~Truthy(authState.user)
         THEN "REDIRECT_LOGIN"
    ELSE IF Truthy(requiredRoles)
            /\ ~Includes(requiredRoles.array, authState.user.role)
         THEN "UNAUTHORIZED"
    ELSE IF ~canAccessRoute(authState.user.role, pathname) THEN "UNAUTHORIZED"
    ELSE "ALLOW"

\* mutant: the route check is left out
guardDecision_noRouteCheck(authState, tenantState, requiredRoles, pathname) ==
    IF authState.isLoading \/ tenantState.isLoading THEN "AWAIT"
    ELSE IF ~authState.isAuthenticated \/ ~Truthy(authState.user)
         THEN "REDIRECT_LOGIN"
    ELSE IF Truthy(requiredRoles)
            /\ ~Includes(requiredRoles.array, authState.user.role)
         THEN "UNAUTHORIZED"
    ELSE "ALLOW"

\* what ProtectedRoute renders for the state of the two contexts:
\* "AWAIT" the spinner, "REDIRECT_LOGIN" <Navigate to="/login">,
\* "UNAUTHORIZED" <UnauthorizedFallback/>, "ALLOW" its children
guardDecision(authState, tenantState, requiredRoles, pathname) ==
    IF authState.isLoading \/ tenantState.isLoading THEN "AWAIT"
    ELSE IF ~authState.isAuthenticated \/ ~Truthy(authState.user)
         THEN "REDIRECT_LOGIN"
    ELSE IF Truthy(requiredRoles)
            /\ ~Includes(requiredRoles.array, authState.user.role)
         THEN "UNAUTHORIZED"
    ELSE IF ~canAccessRoute(authState.user.role, pathname) THEN "UNAUTHORIZED"
    ELSE "ALLOW"

ProtectedRoute(requiredRoles, pathname) ==
    guardDecision(auth, tenant, requiredRoles, pathname)

(* ------------------------------------------------------------------ *)
(* The specification of the running application                         *)
(* ------------------------------------------------------------------ *)

Next ==
    \/ Restore
    \/ \E input \in LoginInputs : login(input[1], input[2])
    \/ \E i \in 1..MaxInFlight : loginResolved(i)
    \/ \E i \in 1..MaxInFlight : loginRejected(i)
    \/ logout
    \/ logoutResolved
    \/ logoutRejected
    \/ catalogChanges
    \/ loadTenants
    \/ \E i \in 1..MaxInFlight : loadTenantsResolved(i)
    \/ \E i \in 1..MaxInFlight : loadTenantsRejected(i)
    \/ \E tenantId \in SwitchTenantIds : switchTenant(tenantId)
    \/ refreshTenants
    \/ refreshTenantsResolved
    \/ refreshTenantsRejected

Spec == Init /\ [][Next]_vars

(* ------------------------------------------------------------------ *)
(* The application across page loads: the Session Store outlives the    *)
(* state of the providers                                               *)
(* ------------------------------------------------------------------ *)

\* the page is loaded again: the providers mount with their initial state,
\* the calls of the page before are gone, localStorage is as it was left
reload ==
    /\ Idle
    /\ auth' = [user |-> Null, isAuthenticated |-> FALSE, isLoading |-> TRUE]
    /\ userOrigin' = "none"
    /\ tenant' = [currentTenant |-> Null, availableTenants |-> <<>>,
                  isLoading |-> TRUE]
    /\ inflight' = [login |-> <<>>, logout |-> 0, loadTenants |-> <<>>,
                    refreshTenants |-> 0]
    /\ restorePending' = TRUE
    /\ effectPending' = TRUE
    /\ lastCall' = NoCall
    /\ UNCHANGED <<localStorage, catalog, policy>>

\* the Identity Session and the recompute it triggers, with no use of the
\* tenant switcher
SessionNext ==
    \/ Restore
    \/ \E input \in LoginInputs : login(input[1], input[2])
    \/ \E i \in 1..MaxInFlight : loginResolved(i)
    \/ \E i \in 1..MaxInFlight : loginRejected(i)
    \/ logout
    \/ logoutResolved
    \/ logoutRejected
    \/ loadTenants
    \/ \E i \in 1..MaxInFlight : loadTenantsResolved(i)
    \/ \E i \in 1..MaxInFlight : loadTenantsRejected(i)
    \/ reload

SessionSpec == Init /\ [][SessionNext]_vars

(* ------------------------------------------------------------------ *)
(* The View Layer: the data the Dashboard and Users pages request       *)
(* ------------------------------------------------------------------ *)

\* Users: const pageSize
pageSize == 10

\* Array.prototype.slice(start, start + size) of a page, pages from 1
PageOf(arr, page, size) ==
    LET start == (page - 1) * size
        stop == IF start + size < Len(arr) THEN start + size ELSE Len(arr)
    IN  SubSeq(arr, start + 1, stop)

\* usersApi.getByTenant: the page of the users of one tenant
usersApi_getByTenant(tenantId, page, size) ==
    LET ofTenant == {i \in Indexes(mockUsers) :
                        mockUsers[i].tenantId = tenantId}
        filteredUsers == Filter(mockUsers, ofTenant)
    IN  [data |-> PageOf(filteredUsers, page, size),
         total |-> Len(filteredUsers), page |-> page, pageSize |-> size]

\* usersApi.getAll: the page of the users of every tenant
usersApi_getAll(page, size) ==
    [data |-> PageOf(mockUsers, page, size),
     total |-> Len(mockUsers), page |-> page, pageSize |-> size]

\* the counts of DashboardStats over some users (storageUsed is random in
\* the source and left out)
statsOf(users, limit) ==
    [totalUsers |-> Len(users),
     activeUsers |-> Cardinality({i \in Indexes(users) :
                                     users[i].status = "active"}),
     pendingInvites |-> Cardinality({i \in Indexes(users) :
                                        users[i].status = "pending"}),
     storageLimit |-> limit]

\* dashboardApi.getStats: the statistics of one tenant
dashboardApi_getStats(tenantId) ==
    LET ofTenant == {i \in Indexes(mockUsers) :
                        mockUsers[i].tenantId = tenantId}
    IN  statsOf(Filter(mockUsers, ofTenant), 100)

\* dashboardApi.getGlobalStats: the statistics of every tenant
dashboardApi_getGlobalStats == statsOf(mockUsers, 500)

\* the data the Data Service answers a recorded request with
response(call) ==
    IF call.op = "dashboardApi.getGlobalStats"
    THEN dashboardApi_getGlobalStats
    ELSE IF call.op = "dashboardApi.getStats"
    THEN dashboardApi_getStats(call.arg)
    ELSE IF call.op = "usersApi.getAll" THEN usersApi_getAll(1, pageSize)
    ELSE usersApi_getByTenant(call.arg, 1, pageSize)

\* App: Dashboard is the index route inside the ProtectedRoute of
\* /dashboard, Users is inside that one and a second ProtectedRoute
DashboardRendered == ProtectedRoute(Undefined, "/dashboard") = "ALLOW"

UsersRendered ==
    /\ ProtectedRoute(Undefined, "/dashboard/users") = "ALLOW"
    /\ ProtectedRoute(Array(<<"super_admin", "org_admin">>),
                      "/dashboard/users") = "ALLOW"

\* mutant: every role is given the statistics of every tenant
loadStats_globalForAll ==
    /\ DashboardRendered
    /\ lastCall' =
         IF ~Truthy(tenant.currentTenant)
         THEN Called("loadStats", "", "no request")
         ELSE Called("dashboardApi.getGlobalStats", "", "pending")
    /\ UNCHANGED <<auth, userOrigin, tenant, localStorage, catalog, inflight,
                   restorePending, effectPending, policy>>

\* the effect of Dashboard, up to its await (what follows sets the state
\* of the page only); the effects of a page run before those of the
\* providers around it
loadStats ==
    /\ DashboardRendered
    /\ lastCall' =
         IF ~Truthy(tenant.currentTenant)
         THEN Called("loadStats", "", "no request")
         ELSE IF auth.user.role = "super_admin"
         THEN Called("dashboardApi.getGlobalStats", "", "pending")
         ELSE Called("dashboardApi.getStats", tenant.currentTenant.id,
                     "pending")
    /\ UNCHANGED <<auth, userOrigin, tenant, localStorage, catalog, inflight,
                   restorePending, effectPending, policy>>

\* the effect of Users on its first page, up to its await
loadUsers ==
    /\ UsersRendered
    /\ lastCall' =
         IF ~Truthy(tenant.currentTenant)
         THEN Called("loadUsers", "", "no request")
         ELSE IF auth.user.role = "super_admin"
         THEN Called("usersApi.getAll", "", "pending")
         ELSE Called("usersApi.getByTenant", tenant.currentTenant.id,
                     "pending")
    /\ UNCHANGED <<auth, userOrigin, tenant, localStorage, catalog, inflight,
                   restorePending, effectPending, policy>>

ViewNext ==
    \/ Restore
    \/ \E input \in LoginInputs : login(input[1], input[2])
    \/ \E i \in 1..MaxInFlight : loginResolved(i)
    \/ \E i \in 1..MaxInFlight : loginRejected(i)
    \/ logout
    \/ logoutResolved
    \/ logoutRejected
    \/ catalogChanges
    \/ loadTenants
    \/ \E i \in 1..MaxInFlight : loadTenantsResolved(i)
    \/ \E i \in 1..MaxInFlight : loadTenantsRejected(i)
    \/ \E tenantId \in SwitchTenantIds : switchTenant(tenantId)
    \/ refreshTenants
    \/ refreshTenantsResolved
    \/ refreshTenantsRejected
    \/ loadStats
    \/ loadUsers

ViewSpec == Init /\ [][ViewNext]_vars

(* ------------------------------------------------------------------ *)
(* Signing in as the org_admin of tenant-1 over the shipped             *)
(* collaborators, which answer every call after their delay and never   *)
(* fail                                                                 *)
(* ------------------------------------------------------------------ *)

\* Login: handleLogin with the role org_admin and tenant-1 selected; its
\* button is disabled while a login of the page is under way
handleLogin ==
    /\ inflight.login = <<>>
    /\ login("org_admin", "tenant-1")

SignInNext ==
    \/ Restore
    \/ loadTenants
    \/ handleLogin
    \/ \E i \in 1..MaxInFlight : loginResolved(i)
    \/ \E i \in 1..MaxInFlight : loadTenantsResolved(i)

\* React runs the effects that are due; delay(ms) of the mock API ends,
\* so every call in flight is answered
SignInFairness ==
    /\ WF_vars(Restore)
    /\ WF_vars(loadTenants)
    /\ WF_vars(\E i \in 1..MaxInFlight : loginResolved(i))
    /\ WF_vars(\E i \in 1..MaxInFlight : loadTenantsResolved(i))

SignInSpec == Init /\ [][SignInNext]_vars /\ SignInFairness

(* ------------------------------------------------------------------ *)
(* The recomputes of the Tenant Scope over a Data Service that answers  *)
(* or fails every call                                                  *)
(* ------------------------------------------------------------------ *)

RecomputeNext ==
    \/ Restore
    \/ \E input \in LoginInputs : login(input[1], input[2])
    \/ \E i \in 1..MaxInFlight : loginResolved(i)
    \/ logout
    \/ logoutResolved
    \/ catalogChanges
    \/ loadTenants
    \/ \E i \in 1..MaxInFlight : loadTenantsResolved(i)
    \/ \E i \in 1..MaxInFlight : loadTenantsRejected(i)

\* React runs the effects that are due; tenantsApi.getAll returns or fails
RecomputeFairness ==
    /\ WF_vars(Restore)
    /\ WF_vars(loadTenants)
    /\ WF_vars(\E i \in 1..MaxInFlight :
                  loadTenantsResolved(i) \/ loadTenantsRejected(i))

RecomputeSpec == Init /\ [][RecomputeNext]_vars /\ RecomputeFairness

(* ------------------------------------------------------------------ *)
(* The specification of the Role Policy: its functions applied to every *)
(* role and path                                                        *)
(* ------------------------------------------------------------------ *)

PolicyCall(role, path, result) ==
    [role |-> role, path |-> path, result |-> result]

callGetPermissions(role) ==
    /\ policy' = [policy EXCEPT !.permissions =
                    PolicyCall(role, "", getPermissions(role))]
    /\ UNCHANGED <<auth, userOrigin, tenant, localStorage, catalog, inflight,
                   restorePending, effectPending, lastCall>>

callGetNavigationForRole(role) ==
    /\ policy' = [policy EXCEPT !.navigation =
                    PolicyCall(role, "", getNavigationForRole(role))]
    /\ UNCHANGED <<auth, userOrigin, tenant, localStorage, catalog, inflight,
                   restorePending, effectPending, lastCall>>

callCanAccessRoute(role, path) ==
    /\ policy' = [policy EXCEPT !.route =
                    PolicyCall(role, path, canAccessRoute(role, path))]
    /\ UNCHANGED <<auth, userOrigin, tenant, localStorage, catalog, inflight,
                   restorePending, effectPending, lastCall>>

PolicyInit ==
    /\ Init
    /\ localStorage = [k \in {AUTH_STORAGE_KEY, TENANT_STORAGE_KEY} |-> Null]
    /\ catalog = mockTenants

PolicyNext ==
    \/ \E role \in UserRole : callGetPermissions(role)
    \/ \E role \in UserRole : callGetNavigationForRole(role)
    \/ \E role \in UserRole, path \in Paths : callCanAccessRoute(role, path)

PolicySpec == PolicyInit /\ [][PolicyNext]_vars

(* ------------------------------------------------------------------ *)
(* Properties                                                           *)
(* ------------------------------------------------------------------ *)

\* the roles of a JavaScript array of roles, as a set
RoleSet(arr) == {arr[i] : i \in 1..Len(arr)}

\* the ids of a sequence of tenants, as a set
TenantIds(tenants) == {tenants[i].id : i \in 1..Len(tenants)}

\* the current identity's role lacks canSwitchTenants
LacksSwitch ==
    Truthy(auth.user) /\ ~getPermissions(auth.user.role).canSwitchTenants

\* the persisted tenant choice of the Session Store
TenantChoice == localStorage[TENANT_STORAGE_KEY]

Loading == auth.isLoading \/ tenant.isLoading

\* C1: in every reachable state, if the current identity's role lacks
\* canSwitchTenants then availableTenants is empty and currentTenant is
\* null or the tenant whose id is the identity's tenantId.
C1_NonSwitcherPinned ==
    LacksSwitch =>
        /\ tenant.availableTenants = <<>>
        /\ \/ tenant.currentTenant = Null
           \/ /\ Truthy(tenant.currentTenant)
              /\ tenant.currentTenant.id = auth.user.tenantId

\* C2: for an identity whose role lacks canSwitchTenants, or with no
\* identity, every switchTenant call ends Unauthorized and leaves
\* currentTenant, availableTenants and the persisted tenant choice as they
\* were, whatever the tenantId.
C2_SwitchUnauthorized ==
    [][\A tenantId \in SwitchTenantIds :
          (switchTenant(tenantId) /\ (~Truthy(auth.user) \/ LacksSwitch))
          => /\ lastCall' = Called("switchTenant", tenantId, "Unauthorized")
             /\ tenant' = tenant
             /\ TenantChoice' = TenantChoice]_vars

\* C2 witness: an org_admin was refused a tenant the catalog holds.
C2_Witness ==
    /\ lastCall.op = "switchTenant"
    /\ lastCall.result = "Unauthorized"
    /\ lastCall.arg \in TenantIds(catalog)
    /\ Truthy(auth.user)
    /\ auth.user.role = "org_admin"
    /\ Truthy(tenant.currentTenant)

\* C3: for a super_admin, switchTenant with an id that no member of
\* availableTenants has ends TenantNotFound and leaves currentTenant,
\* availableTenants and the persisted tenant choice as they were.
C3_SwitchTenantNotFound ==
    [][\A tenantId \in SwitchTenantIds :
          (/\ switchTenant(tenantId)
           /\ Truthy(auth.user)
           /\ auth.user.role = "super_admin"
           /\ tenantId \notin TenantIds(tenant.availableTenants))
          => /\ lastCall' = Called("switchTenant", tenantId, "TenantNotFound")
             /\ tenant' = tenant
             /\ TenantChoice' = TenantChoice]_vars

\* C3 witness: a super_admin scoped to a tenant asked for an absent one.
C3_Witness ==
    /\ lastCall.op = "switchTenant"
    /\ lastCall.result = "TenantNotFound"
    /\ Truthy(auth.user)
    /\ auth.user.role = "super_admin"
    /\ Truthy(tenant.currentTenant)
    /\ tenant.availableTenants # <<>>

\* C4: for a super_admin, switchTenant with the id of a member of
\* availableTenants makes that member the currentTenant and the id the
\* persisted tenant choice, and changes nothing else: availableTenants,
\* the loading flag, the identity, and the calls in flight (no fetch).
C4_SwitchSucceeds ==
    [][\A tenantId \in SwitchTenantIds :
          (/\ switchTenant(tenantId)
           /\ Truthy(auth.user)
           /\ auth.user.role = "super_admin"
           /\ tenantId \in TenantIds(tenant.availableTenants))
          => /\ lastCall' = Called("switchTenant", tenantId, "ok")
             /\ \E i \in 1..Len(tenant.availableTenants) :
                   /\ tenant.availableTenants[i].id = tenantId
                   /\ tenant'.currentTenant = tenant.availableTenants[i]
             /\ TenantChoice' = Item(tenantId)
             /\ tenant'.availableTenants = tenant.availableTenants
             /\ tenant'.isLoading = tenant.isLoading
             /\ auth' = auth
             /\ localStorage'[AUTH_STORAGE_KEY] = localStorage[AUTH_STORAGE_KEY]
             /\ inflight' = inflight]_vars

\* C4 witness: a super_admin switched to a tenant other than the first.
C4_Witness ==
    /\ lastCall = Called("switchTenant", "tenant-3", "ok")
    /\ Truthy(tenant.currentTenant)
    /\ tenant.currentTenant.id = "tenant-3"
    /\ TenantChoice = Item("tenant-3")

\* C5: while the Identity Session or the Tenant Scope is loading, the guard
\* shows the spinner (AWAIT) for every path and every requiredRoles.
C5_AwaitWhileLoading ==
    Loading =>
        \A requiredRoles \in RequiredRolesProps, pathname \in Paths :
            ProtectedRoute(requiredRoles, pathname) = "AWAIT"

\* C5 witness: an authenticated identity whose tenants are being loaded.
C5_Witness ==
    /\ ~auth.isLoading
    /\ tenant.isLoading
    /\ auth.isAuthenticated
    /\ Truthy(auth.user)

\* C6: with nothing loading and no current identity the guard redirects to
\* the sign-in page for every path and requiredRoles, and it never shows
\* the protected content without a current identity.
C6_AnonymousRedirected ==
    \A requiredRoles \in RequiredRolesProps, pathname \in Paths :
        /\ (~Loading /\ auth.user = Null)
               => ProtectedRoute(requiredRoles, pathname) = "REDIRECT_LOGIN"
        /\ ProtectedRoute(requiredRoles, pathname) = "ALLOW"
               => Truthy(auth.user)

\* C6 witness: signed out, the reset of the Tenant Scope done.
C6_Witness ==
    /\ ~Loading
    /\ auth.user = Null
    /\ ~auth.isAuthenticated
    /\ Idle
    /\ lastCall = Called("loadTenants", "", "reset")
    /\ localStorage[AUTH_STORAGE_KEY] = Null
    /\ TenantChoice # Null

\* C7: the guard checks loading, then anonymous, then requiredRoles, then
\* the route: for an authenticated identity with nothing loading it shows
\* unauthorized if requiredRoles is given and lacks the role or if the
\* route is not accessible to the role, and the content exactly otherwise.
C7_GuardDecision ==
    \A requiredRoles \in RequiredRolesProps, pathname \in Paths :
        LET decision == ProtectedRoute(requiredRoles, pathname)
            anonymous == ~auth.isAuthenticated \/ auth.user = Null
            roleRefused == /\ requiredRoles # Undefined
                           /\ auth.user.role \notin RoleSet(requiredRoles.array)
            routeRefused == ~canAccessRoute(auth.user.role, pathname)
        IN  /\ decision = "AWAIT" <=> Loading
            /\ decision = "REDIRECT_LOGIN" <=> (~Loading /\ anonymous)
            /\ decision = "UNAUTHORIZED" <=>
                  (~Loading /\ ~anonymous /\ (roleRefused \/ routeRefused))
            /\ decision = "ALLOW" <=>
                  (~Loading /\ ~anonymous /\ ~roleRefused /\ ~routeRefused)

\* C7 witness: a member whose tenant is resolved, who is shown the
\* dashboard, refused the users page by the route check alone, and refused
\* an unlisted page by requiredRoles.
C7_Witness ==
    /\ ~Loading
    /\ Idle
    /\ lastCall = Called("loadTenants", "", "ok")
    /\ auth.isAuthenticated
    /\ Truthy(auth.user)
    /\ auth.user.role = "member"
    /\ ProtectedRoute(Undefined, "/dashboard") = "ALLOW"
    /\ ProtectedRoute(Undefined, "/dashboard/users") = "UNAUTHORIZED"
    /\ ProtectedRoute(Array(<<"super_admin", "org_admin">>),
                      "/dashboard/reports") = "UNAUTHORIZED"
    /\ ProtectedRoute(Array(<<"member">>), "/dashboard/reports") = "ALLOW"

\* the positions of the navigation catalog whose path is exactly the path
EntriesAt(path) ==
    {i \in 1..Len(navigationItems) : navigationItems[i].path = path}

\* C8: canAccessRoute looks the path up by exact match: with a matching
\* entry it returns whether the role is among the entry's requiredRoles,
\* with none it returns true; "/dashboard/users" is accessible to
\* super_admin and org_admin and not to member.
C8_RouteAccess ==
    policy.route.role # "" =>
        LET role == policy.route.role
            path == policy.route.path
            result == policy.route.result
        IN  /\ EntriesAt(path) = {} => result = TRUE
            /\ \A i \in EntriesAt(path) :
                  (\A j \in EntriesAt(path) : i <= j)
                  => result = (role \in RoleSet(navigationItems[i].requiredRoles))
            /\ path = "/dashboard/users"
                  => result = (role \in {"super_admin", "org_admin"})

\* C8 witness: a member was refused "/dashboard/users".
C8_Witness ==
    /\ policy.route.role = "member"
    /\ policy.route.path = "/dashboard/users"
    /\ policy.route.result = FALSE

\* C9: an entry of the navigation catalog is in getNavigationForRole(R)
\* exactly if R is among its requiredRoles, and the result lists its
\* entries in catalog order without duplicates.
C9_NavigationForRole ==
    policy.navigation.role # "" =>
        LET role == policy.navigation.role
            result == policy.navigation.result
        IN  /\ \A i \in 1..Len(navigationItems) :
                  (\E j \in 1..Len(result) : result[j] = navigationItems[i])
                  <=> role \in RoleSet(navigationItems[i].requiredRoles)
            /\ \A j \in 1..Len(result) :
                  \E i \in 1..Len(navigationItems) :
                      result[j] = navigationItems[i]
            /\ \A j, k \in 1..Len(result) :
                  j < k =>
                     \E a, b \in 1..Len(navigationItems) :
                        /\ a < b
                        /\ result[j] = navigationItems[a]
                        /\ result[k] = navigationItems[b]

\* C9 witness: the navigation of a member is the dashboard entry alone.
C9_Witness ==
    /\ policy.navigation.role = "member"
    /\ Len(policy.navigation.result) = 1
    /\ policy.navigation.result[1].path = "/dashboard"

\* C10: for every role, canSwitchTenants implies canViewAllTenants in the
\* PermissionSet getPermissions returns; the PermissionSet is computed
\* from the role alone.
C10_SwitchImpliesViewAll ==
    policy.permissions.role # "" =>
        (policy.permissions.result.canSwitchTenants
            => policy.permissions.result.canViewAllTenants)

\* C10 witness: the PermissionSet of super_admin, who may switch tenants.
C10_Witness ==
    /\ policy.permissions.role = "super_admin"
    /\ policy.permissions.result.canSwitchTenants
    /\ policy.permissions.result.canViewAllTenants

\* the load of the in-flight recomputes that was started for a user whose
\* role may switch tenants
SwitcherLoad(i) ==
    getPermissions(inflight.loadTenants[i].user.role).canSwitchTenants

\* C11: when a recompute for an identity whose role has canSwitchTenants
\* completes, availableTenants is the whole catalog in the Data Service's
\* order, and currentTenant is the catalog entry whose id is the persisted
\* tenant choice if there is one, otherwise the first catalog entry,
\* otherwise no tenant when the catalog is empty (the code leaves
\* tenants[0] of the empty array there, JavaScript's undefined, which
\* every reader of currentTenant treats as null).
C11_SwitcherRecompute ==
    [][\A i \in 1..MaxInFlight :
          (loadTenantsResolved(i) /\ SwitcherLoad(i))
          => /\ tenant'.availableTenants = catalog
             /\ LET chosen == {k \in 1..Len(catalog) :
                                  /\ Truthy(TenantChoice)
                                  /\ catalog[k].id = TenantChoice.text}
                IN  IF chosen # {}
                    THEN \E k \in chosen : tenant'.currentTenant = catalog[k]
                    ELSE IF catalog # <<>>
                    THEN tenant'.currentTenant = catalog[1]
                    ELSE tenant'.currentTenant \in {Null, Undefined}]_vars

\* C11 witness: a super_admin's recompute has restored the stored choice
\* tenant-2, which is not the first of the three catalog entries.
C11_Witness ==
    /\ lastCall = Called("loadTenants", "", "ok")
    /\ Truthy(auth.user)
    /\ auth.user.role = "super_admin"
    /\ tenant.availableTenants = mockTenants
    /\ catalog = mockTenants
    /\ Truthy(tenant.currentTenant)
    /\ tenant.currentTenant.id = "tenant-2"
    /\ TenantChoice = Item("tenant-2")

\* C11, second case: a super_admin's recompute over the empty catalog has
\* left no current tenant.
C11_WitnessEmptyCatalog ==
    /\ lastCall = Called("loadTenants", "", "ok")
    /\ Truthy(auth.user)
    /\ auth.user.role = "super_admin"
    /\ catalog = <<>>
    /\ tenant.availableTenants = <<>>
    /\ ~Truthy(tenant.currentTenant)

\* the Identity Session is ANONYMOUS
Anonymous == auth.user = Null /\ ~auth.isAuthenticated

\* C12: after a failed signIn the Identity Session is ANONYMOUS, whether
\* it was ANONYMOUS or AUTHENTICATED before, the failure has reached the
\* caller as an error, and the session is no longer loading.
C12_FailedSignInAnonymous ==
    lastCall = Called("login", "", "SignInFailed") =>
        Anonymous /\ ~auth.isLoading

\* C13: signOut always ends with the Identity Session ANONYMOUS and the
\* identity entry of the Session Store removed, also when the sign-out
\* notification of the Identity Provider fails.
C13_SignOutAlwaysClears ==
    (lastCall.op = "logout" /\ lastCall.result \in {"ok", "SignOutFailed"})
        => Anonymous /\ localStorage[AUTH_STORAGE_KEY] = Null

\* C14: on start, a stored identity that does not parse leaves the
\* Identity Session ANONYMOUS and no longer loading, no error reaches the
\* caller, and the entry is cleared (a later read of it gives null); an
\* absent entry leaves the session ANONYMOUS.
C14_RestoreMalformedOrAbsent ==
    [][Restore =>
          LET stored == getItem(localStorage, AUTH_STORAGE_KEY)
          IN  /\ (stored # Null /\ JSONparse(stored.text) = SyntaxError)
                 => /\ Anonymous'
                    /\ ~auth'.isLoading
                    /\ lastCall' = Called("restore", "", "corrupt")
                    /\ getItem(localStorage', AUTH_STORAGE_KEY) = Null
              /\ stored = Null
                 => /\ Anonymous'
                    /\ ~auth'.isLoading
                    /\ lastCall' = Called("restore", "", "absent")]_vars

\* C14 witness: the mount effect met a malformed entry and cleared it.
C14_Witness ==
    /\ lastCall = Called("restore", "", "corrupt")
    /\ Anonymous
    /\ ~auth.isLoading
    /\ localStorage[AUTH_STORAGE_KEY] = Null

\* C14, second case: the mount effect met no entry.
C14_WitnessAbsent ==
    /\ lastCall = Called("restore", "", "absent")
    /\ Anonymous
    /\ ~auth.isLoading

\* the identities signIn can store
SignedInIdentities ==
    {authApiLogin(input[1], input[2]) : input \in LoginInputs}

\* the keys of an identity, as a set
IdentityKeys == {UserKeys[k] : k \in 1..Len(UserKeys)}

\* C15: session restore round trip: a successful signIn stores the
\* identity I it signed in, over any earlier value, and an Identity
\* Session that starts again from empty in-memory state over that entry
\* becomes AUTHENTICATED with an identity equal to I in every field (id,
\* name, email, role, tenantId, status).
C15_RestoreRoundTrip ==
    /\ [][\A i \in 1..MaxInFlight :
             loginResolved(i)
             => /\ auth'.user \in SignedInIdentities
                /\ getItem(localStorage', AUTH_STORAGE_KEY)
                       = Item(JSONstringify(auth'.user))]_vars
    /\ [](\A I \in SignedInIdentities :
             (/\ lastCall = Called("restore", "", "ok")
              /\ getItem(localStorage, AUTH_STORAGE_KEY)
                     = Item(JSONstringify(I)))
             => /\ auth.isAuthenticated
                /\ ~auth.isLoading
                /\ DOMAIN auth.user = IdentityKeys
                /\ \A k \in IdentityKeys : auth.user[k] = I[k])

\* C15 witness: after a page load the session holds the super_admin
\* user-1 as parsed from the store, where only a signIn of the page before
\* can have put it.
C15_Witness ==
    /\ lastCall = Called("restore", "", "ok")
    /\ userOrigin = "parsed"
    /\ auth.isAuthenticated
    /\ auth.user = authApiLogin("super_admin", "tenant-2")
    /\ getItem(localStorage, AUTH_STORAGE_KEY)
           = Item(JSONstringify(authApiLogin("super_admin", "tenant-2")))

\* C16: refresh() replaces availableTenants with the catalog it fetched and
\* leaves currentTenant as it was when a tenant with its id is still in
\* that catalog; when currentTenant is no longer in it, currentTenant
\* becomes the first entry of the fetched catalog, or null when that is
\* empty. Hence after any refresh currentTenant is null or a member of the
\* fetched catalog.
C16_RefreshKeepsOrFallsBack ==
    [][refreshTenantsResolved
       => /\ tenant'.availableTenants = catalog
          /\ IF ~Truthy(tenant.currentTenant)
             THEN \/ ~Truthy(tenant'.currentTenant)
                  \/ tenant'.currentTenant.id \in TenantIds(catalog)
             ELSE IF tenant.currentTenant.id \in TenantIds(catalog)
             THEN tenant'.currentTenant = tenant.currentTenant
             ELSE IF catalog # <<>>
             THEN tenant'.currentTenant = catalog[1]
             ELSE ~Truthy(tenant'.currentTenant)]_vars

\* the Tenant Scope is resolved: nothing is loading or in flight, and the
\* state is the one a recompute gives the identity signed in over the
\* catalog and the persisted tenant choice as they are
Resolved ==
    /\ Idle
    /\ InFlight = 0
    /\ ~auth.isLoading
    /\ auth.isAuthenticated
    /\ Truthy(auth.user)
    /\ tenant = [currentTenant |->
                     resolveCurrentTenant(auth.user, catalog, TenantChoice),
                 availableTenants |->
                     resolveAvailableTenants(auth.user, catalog),
                 isLoading |-> FALSE]

\* C17: refresh is idempotent: from any resolved Tenant Scope state, of an
\* identity of any role, two calls of refresh() over a catalog that stays
\* as it is leave currentTenant and availableTenants equal to what they
\* were before the first call.
C17_RefreshTwiceNoChange ==
    Resolved =>
        LET twice == refreshResult(refreshResult(tenant, catalog), catalog)
        IN  /\ twice.currentTenant = tenant.currentTenant
            /\ twice.availableTenants = tenant.availableTenants

\* the requests for data of the View Layer
DataRequests ==
    { "dashboardApi.getStats", "dashboardApi.getGlobalStats",
      "usersApi.getByTenant", "usersApi.getAll" }

C18_WitnessGlobal ==
    /\ lastCall.op = "usersApi.getAll"
    /\ UsersRendered
    /\ auth.user.role = "super_admin"
    /\ tenant.currentTenant.id = "tenant-2"
    /\ \E k \in Indexes(response(lastCall).data) :
          response(lastCall).data[k].tenantId # "tenant-2"

\* the org_admin of tenant-1 is signing in over the catalog [tenant-1,
\* tenant-2]
OrgAdminSigningIn ==
    /\ catalog = SubSeq(mockTenants, 1, 2)
    /\ \E i \in 1..Len(inflight.login) :
          inflight.login[i] = [role |-> "org_admin", tenantId |-> "tenant-1"]

\* nothing is loading, the org_admin is scoped to tenant-1 with no tenants
\* to choose among, and the guard lets it into /dashboard/settings and
\* refuses it /dashboard/users when that requires super_admin
OrgAdminSettled ==
    /\ Idle
    /\ ~Loading
    /\ auth.isAuthenticated
    /\ auth.user = authApiLogin("org_admin", "tenant-1")
    /\ tenant.currentTenant = mockTenants[1]
    /\ tenant.availableTenants = <<>>
    /\ ProtectedRoute(Undefined, "/dashboard/settings") = "ALLOW"
    /\ ProtectedRoute(Array(<<"super_admin", "org_admin">>),
                      "/dashboard/settings") = "ALLOW"
    /\ ProtectedRoute(Array(<<"super_admin">>), "/dashboard/users")
           = "UNAUTHORIZED"

C19_Witness ==
    /\ OrgAdminSettled
    /\ catalog = SubSeq(mockTenants, 1, 2)
    /\ InFlight = 0
    /\ lastCall = Called("loadTenants", "", "ok")

\* the i-th recompute in flight is superseded: a recompute was triggered
\* after it, or the identity it was started for is no longer the one
\* signed in
Superseded(i) ==
    \/ i < Len(inflight.loadTenants)
    \/ ~auth.isAuthenticated
    \/ auth.user # inflight.loadTenants[i].user

\* C20: recomputes of the Tenant Scope supersede one another: once an
\* identity change has triggered a new recompute, the answer to an earlier
\* recompute that was still awaiting the Data Service is never applied, to
\* currentTenant, availableTenants, loading or the persisted tenant
\* choice; the final state is the one computed for the latest trigger.
C20_SupersededRecomputeDropped ==
    [][\A i \in 1..MaxInFlight :
          (/\ i \in 1..Len(inflight.loadTenants)
           /\ Superseded(i)
           /\ loadTenantsResolved(i))
          => /\ tenant' = tenant
             /\ localStorage' = localStorage]_vars

\* a signOut has completed and no signIn was initiated since: the last
\* call is the completed logout, or the reset of the Tenant Scope it
\* triggered (a login would have recorded itself)
SignedOutSince ==
    \/ lastCall = Called("logout", "", "ok")
    \/ /\ lastCall = Called("loadTenants", "", "reset")
       /\ Anonymous
       /\ ~auth.isLoading

\* C21: no write after sign-out: once a signOut has completed, the Session
\* Store holds no identity entry until a signIn initiated after that
\* signOut succeeds; a signIn that was already in flight when the signOut
\* completed neither writes an identity nor sets AUTHENTICATED afterwards.
C21_NoWriteAfterSignOut ==
    /\ [](SignedOutSince => getItem(localStorage, AUTH_STORAGE_KEY) = Null)
    /\ [][\A i \in 1..MaxInFlight :
             (/\ SignedOutSince
              /\ i \in 1..Len(inflight.login)
              /\ loginResolved(i))
             => /\ getItem(localStorage', AUTH_STORAGE_KEY) = Null
                /\ ~auth'.isAuthenticated]_vars

\* C22: whenever the Identity Session is ANONYMOUS (after sign-out, after
\* a failed restore, or before any sign-in) and the reset that transition
\* triggers has run, the Tenant Scope is {currentTenant: null,
\* availableTenants: [], isLoading: false}, and stays so until the next
\* successful sign-in.
C22_AnonymousScopeReset ==
    (Anonymous /\ ~effectPending) =>
        tenant = [currentTenant |-> Null, availableTenants |-> <<>>,
                  isLoading |-> FALSE]

\* C23: self-healing persistence: after every recompute for a super_admin
\* and every successful switchTenant that leaves currentTenant non-null,
\* the persisted tenant choice is currentTenant.id, also when the id
\* persisted before was that of no catalog entry.
C23_TenantChoicePersisted ==
    [][/\ \A i \in 1..MaxInFlight :
             (/\ i \in 1..Len(inflight.loadTenants)
              /\ SwitcherLoad(i)
              /\ loadTenantsResolved(i)
              /\ Truthy(tenant'.currentTenant))
             => TenantChoice' = Item(tenant'.currentTenant.id)
       /\ \A tenantId \in SwitchTenantIds :
             (/\ switchTenant(tenantId)
              /\ lastCall'.result = "ok"
              /\ Truthy(tenant'.currentTenant))
             => TenantChoice' = Item(tenant'.currentTenant.id)]_vars

\* C23 witness: a super_admin's recompute over the three tenants has
\* settled on the first one, which no store holds at start, and the store
\* holds it as the persisted choice.
C23_Witness ==
    /\ lastCall = Called("loadTenants", "", "ok")
    /\ Truthy(auth.user)
    /\ auth.user.role = "super_admin"
    /\ catalog = mockTenants
    /\ tenant.availableTenants = mockTenants
    /\ tenant.currentTenant = mockTenants[1]
    /\ TenantChoice = Item("tenant-1")

\* C24: tenant isolation under the guard: in every reachable state in
\* which the guard returns ALLOW for an identity whose role lacks
\* canSwitchTenants, currentTenant is null or has the id of that
\* identity's tenantId, whatever the interleaving, a signIn as another
\* identity with no signOut in between and a late answer to a recompute
\* included.
C24_TenantIsolationUnderGuard ==
    \A requiredRoles \in RequiredRolesProps, pathname \in Paths :
        (ProtectedRoute(requiredRoles, pathname) = "ALLOW" /\ LacksSwitch)
        => \/ ~Truthy(tenant.currentTenant)
           \/ tenant.currentTenant.id = auth.user.tenantId

\* C25: in every reachable state of the Identity Session, isAuthenticated
\* is true if and only if the current identity is non-null, also after
\* restoring a stored value that parses but is no identity object, such as
\* the JSON text null.
C25_AuthenticatedIffIdentity ==
    auth.isAuthenticated <=> auth.user # Null

\* C26: a recompute for an identity whose role lacks canSwitchTenants does
\* not write the persisted tenant choice, and signOut leaves that entry as
\* it is, so that a super_admin's choice survives an org_admin or member
\* session in between and is the tenant resolved at the super_admin's next
\* sign-in.
C26_ChoiceSurvivesNonSwitcher ==
    [][/\ \A i \in 1..MaxInFlight :
             (/\ i \in 1..Len(inflight.loadTenants)
              /\ ~SwitcherLoad(i)
              /\ loadTenantsResolved(i))
             => TenantChoice' = TenantChoice
       /\ logoutResolved => TenantChoice' = TenantChoice]_vars

\* C27: every recompute of the Tenant Scope eventually ends with isLoading
\* false, provided the call of the Data Service returns or fails; when the
\* fetch of the catalog fails, the recompute writes nothing to the Session
\* Store and leaves currentTenant and availableTenants as they were.
C27_RecomputeEnds ==
    /\ tenant.isLoading ~> ~tenant.isLoading
    /\ [][\A i \in 1..MaxInFlight :
             (/\ i \in 1..Len(inflight.loadTenants)
              /\ (loadTenantsResolved(i) \/ loadTenantsRejected(i)))
             => ~tenant'.isLoading]_vars
    /\ [][\A i \in 1..MaxInFlight :
             (/\ i \in 1..Len(inflight.loadTenants)
              /\ lastCall'.result = "failed"
              /\ loadTenantsRejected(i))
             => /\ localStorage' = localStorage
                /\ tenant'.currentTenant = tenant.currentTenant
                /\ tenant'.availableTenants = tenant.availableTenants]_vars

\* C27 witness: the fetch of a recompute has failed: nothing is loading
\* and the tenant resolved before is still the current one.
C27_Witness ==
    /\ lastCall = Called("loadTenants", "", "failed")
    /\ ~tenant.isLoading
    /\ auth.isAuthenticated
    /\ Truthy(tenant.currentTenant)

\* JSON.stringify of the current identity, which for null is the text null
Serialization(user) ==
    IF user = Null THEN JsonNullText ELSE JSONstringify(user)

C29_LoadingWhileSigningIn ==
    inflight.login # <<>> =>
        /\ auth.isLoading
        /\ \A requiredRoles \in RequiredRolesProps, pathname \in Paths :
              ProtectedRoute(requiredRoles, pathname) = "AWAIT"

====
